---- MODULE Spec2Model ----
(***************************************************************************)
(* Proof-of-History entries (src/src/entry.rs): the hash-chain derivation  *)
(* next_hash, Entry::verify with its parallel per-event checks, and the    *)
(* constructors new_tick, create_entry, create_entry_mut and next_tick.    *)
(*                                                                         *)
(* Spec          applies the pure functions to bounded inputs.             *)
(* SpecProducer  is the single producer that extends a chain with          *)
(*               create_entry_mut.  The pure functions read no producer    *)
(*               state, so the two are explored separately.                *)
(***************************************************************************)
EXTENDS Integers, Sequences, FiniteSets

\* ------------------------------------------------------------------ bounds
\* The u64 counter is scaled down: it holds 0..MaxCount and wraps modulo
\* MaxCount + 1, as u64 wraps modulo 2^64.
MaxCount == 3
\* Longest event list handed to a function.
MaxEvents == 2
\* Width of a signature in bytes, and the largest byte value used in one.
SigLen == 1
MaxByte == 1
\* Number of unrelated seed identifiers.
NumSeeds == 1
\* Number of create_entry_mut calls the producer makes, and the longest event
\* list it hands to one call.
MaxCalls == 2
MaxBatch == 1

Modulus == MaxCount + 1
Counts == 0..MaxCount

\* ------------------------------------------------------------------ hash
\* An identifier is the history of what was hashed to obtain it: the seed
\* followed by the byte strings appended before each SHA-256 application.
\* Two identifiers are equal iff their histories are (no collisions).
Seed(k) == << <<k>> >>
Zero == Seed(0)

\* hash(&id): one application of the one-way hash to the identifier alone.
hash(val) == Append(val, <<>>)

\* extend_and_hash(&id, &data): hash of the identifier followed by data.
extend_and_hash(id, val) == Append(id, val)

Starts == {Seed(k) : k \in 0..(NumSeeds - 1)} \cup {hash(Seed(k)) : k \in 0..(NumSeeds - 1)}

\* ---------------------------------------------------------------- events
Variants == {"Transaction", "Signature", "Timestamp"}
Sigs == [1..SigLen -> 0..MaxByte]
Events == [variant : Variants, sig : Sigs, valid : BOOLEAN]
EventLists == UNION {[1..k -> Events] : k \in 0..MaxEvents}
Batches == UNION {[1..k -> Events] : k \in 0..MaxBatch}

\* event.verify(): the event's own signature check, an opaque boolean.
event_verify(event) == event.valid

\* ----------------------------------------------------------------- entry
NoEntry == [num_hashes |-> 0, id |-> Zero, events |-> <<>>]

\* Entry::new_tick
new_tick(num_hashes, id) == [num_hashes |-> num_hashes, id |-> id, events |-> <<>>]

\* add_event_data that forgets the signature bytes.
add_event_data_tag_only(hash_data, event) ==
  CASE event.variant = "Transaction" -> hash_data \o <<0>>
    [] event.variant = "Signature"   -> hash_data \o <<1>>
    [] event.variant = "Timestamp"   -> hash_data \o <<2>>

\* add_event_data that gives Timestamp the discriminant of Signature.
add_event_data_shared_tag(hash_data, event) ==
  CASE event.variant = "Transaction" -> hash_data \o <<0>> \o event.sig
    [] event.variant = "Signature"   -> hash_data \o <<1>> \o event.sig
    [] event.variant = "Timestamp"   -> hash_data \o <<1>> \o event.sig

\* add_event_data: one discriminant byte, then the signature bytes.
add_event_data(hash_data, event) ==
  CASE event.variant = "Transaction" -> hash_data \o <<0>> \o event.sig
    [] event.variant = "Signature"   -> hash_data \o <<1>> \o event.sig
    [] event.variant = "Timestamp"   -> hash_data \o <<2>> \o event.sig

\* `for event in events { add_event_data(&mut hash_data, event) }`
RECURSIVE event_data(_, _, _)
event_data(hash_data, events, k) ==
  IF k > Len(events) THEN hash_data
  ELSE event_data(add_event_data(hash_data, events[k]), events, k + 1)

\* `for _ in 1..num_hashes { id = hash(&id) }`, the range starting at k.
RECURSIVE hash_loop(_, _, _)
hash_loop(id, k, num_hashes) ==
  IF k < num_hashes THEN hash_loop(hash(id), k + 1, num_hashes) ELSE id

\* next_hash whose loop runs over 0..num_hashes.
next_hash_full_count(start_hash, num_hashes, events) ==
  LET id == hash_loop(start_hash, 0, num_hashes)
      hash_data == event_data(<<>>, events, 1)
  IN  IF hash_data # <<>> THEN extend_and_hash(id, hash_data) ELSE id

next_hash(start_hash, num_hashes, events) ==
  LET id == hash_loop(start_hash, 1, num_hashes)
      hash_data == event_data(<<>>, events, 1)
  IN  IF hash_data # <<>> THEN extend_and_hash(id, hash_data) ELSE id

\* next_tick that derives the id from one hash more than it records.
next_tick_one_more(start_hash, num_hashes) ==
  [num_hashes |-> num_hashes, id |-> next_hash(start_hash, num_hashes + 1, <<>>), events |-> <<>>]

\* next_tick
next_tick(start_hash, num_hashes) ==
  [num_hashes |-> num_hashes, id |-> next_hash(start_hash, num_hashes, <<>>), events |-> <<>>]

\* ------------------------------------------------------- results of calls
RetNone == [kind |-> "none", entry |-> NoEntry, hash |-> Zero, bool |-> FALSE, all |-> FALSE]
RetRunning == [RetNone EXCEPT !.kind = "running"]
RetPanic == [RetNone EXCEPT !.kind = "panic"]
RetEntry(e) == [RetNone EXCEPT !.kind = "entry", !.entry = e]
RetHash(h) == [RetNone EXCEPT !.kind = "hash", !.hash = h]
RetBool(b, a) == [RetNone EXCEPT !.kind = "bool", !.bool = b, !.all = a]

\* create_entry that folds the recorded count into the id.
create_entry_counted(start_hash, cur_hashes, events, overflow_checks) ==
  LET sum == cur_hashes + (IF Len(events) = 0 THEN 0 ELSE 1)
      id == next_hash(start_hash, sum % Modulus, events)
  IN  IF sum > MaxCount /\ overflow_checks
      THEN RetPanic
      ELSE RetEntry([num_hashes |-> sum % Modulus, id |-> id, events |-> events])

\* create_entry.  `cur_hashes + 1` overflows when cur_hashes is the largest
\* value and events is non-empty: a build with overflow checks panics, a
\* build without them wraps.
create_entry(start_hash, cur_hashes, events, overflow_checks) ==
  LET sum == cur_hashes + (IF Len(events) = 0 THEN 0 ELSE 1)
      id == next_hash(start_hash, 0, events)
  IN  IF sum > MaxCount /\ overflow_checks
      THEN RetPanic
      ELSE RetEntry([num_hashes |-> sum % Modulus, id |-> id, events |-> events])

\* create_entry_mut that does not adopt the new id.
create_entry_mut_keeps_start(start_hash, cur_hashes, events, overflow_checks) ==
  LET r == create_entry(start_hash, cur_hashes, events, overflow_checks)
  IN  IF r.kind = "entry"
      THEN [ret |-> r, start_hash |-> start_hash, cur_hashes |-> 0]
      ELSE [ret |-> r, start_hash |-> start_hash, cur_hashes |-> cur_hashes]

\* create_entry_mut: the result and the producer state it leaves.  A panic
\* in create_entry unwinds before either assignment.
create_entry_mut(start_hash, cur_hashes, events, overflow_checks) ==
  LET r == create_entry(start_hash, cur_hashes, events, overflow_checks)
  IN  IF r.kind = "entry"
      THEN [ret |-> r, start_hash |-> r.entry.id, cur_hashes |-> 0]
      ELSE [ret |-> r, start_hash |-> start_hash, cur_hashes |-> cur_hashes]

\* ---------------------------------------------------------------- verify
\* all(..) that settles as soon as any one event has been checked.
all_done_after_one(checked, found, n) == found \/ checked # {} \/ n = 0

\* The verdict of `par_iter().all(..)`: the workers stop once one of them
\* has seen a failing event, or when every event has been checked.
all_done(checked, found, n) == found \/ checked = 1..n

\* verify that compares the id only.
verify_result_id_only(all_ok, entry, start_hash) ==
  entry.id = next_hash(start_hash, entry.num_hashes, entry.events)

\* `all(..) && self.id == next_hash(start_hash, self.num_hashes, &self.events)`
verify_result(all_ok, entry, start_hash) ==
  all_ok /\ entry.id = next_hash(start_hash, entry.num_hashes, entry.events)

\* The same check with the events taken left to right on one thread.
RECURSIVE seq_all(_, _)
seq_all(events, k) ==
  IF k > Len(events) THEN TRUE
  ELSE IF event_verify(events[k]) THEN seq_all(events, k + 1) ELSE FALSE

Entry_verify(entry, start_hash) == verify_result(seq_all(entry.events, 1), entry, start_hash)

\* ----------------------------------------------------------------- state
VARIABLES
  start_hash,   \* producer: current identifier
  cur_hashes,   \* producer: hashes since the last entry
  first_cur,    \* history: cur_hashes the producer started with
  calls,        \* history: create_entry_mut calls made
  in_start,     \* argument: the identifier passed as start / start_hash / id
  in_hashes,    \* argument: num_hashes / cur_hashes
  in_events,    \* argument: the event list
  in_id,        \* argument: the id field of the entry handed to verify
  call,         \* name of the function called, "none" before the call
  ret,          \* its result
  ventry,       \* verify: the entry under verification (self)
  vprev,        \* history: the entry before it was tampered with
  vchecked,     \* verify: indices of the events already checked
  vfound,       \* verify: a failing event has been seen
  attack        \* history: how the entry under verification was tampered

Producer == <<start_hash, cur_hashes, first_cur, calls>>
Inputs == <<in_start, in_hashes, in_events, in_id>>
vars == <<Producer, Inputs, call, ret, ventry, vprev, vchecked, vfound, attack>>

NoAttack == [kind |-> "none", i |-> 0, j |-> 0]

\* Identifiers an entry handed to verify may carry: the right one for some
\* start, and the one create_entry derives.
Ids(s, n, evs) == {next_hash(t, n, evs) : t \in Starts} \cup {next_hash(s, 0, evs)}

\* The arguments are drawn from the bounded sets; no call has been made.
Init ==
  /\ start_hash = Zero
  /\ cur_hashes = 0
  /\ first_cur = 0
  /\ calls = 0
  /\ in_start \in Starts
  /\ in_hashes \in Counts
  /\ in_events \in EventLists
  /\ in_id \in Ids(in_start, in_hashes, in_events)
  /\ call = "none"
  /\ ret = RetNone
  /\ ventry = NoEntry
  /\ vprev = NoEntry
  /\ vchecked = {}
  /\ vfound = FALSE
  /\ attack = NoAttack

NewTick ==
  /\ call = "none"
  /\ call' = "new_tick"
  /\ ret' = RetEntry(new_tick(in_hashes, in_start))
  /\ UNCHANGED <<Producer, Inputs, ventry, vprev, vchecked, vfound, attack>>

NextTick ==
  /\ call = "none"
  /\ call' = "next_tick"
  /\ ret' = RetEntry(next_tick(in_start, in_hashes))
  /\ UNCHANGED <<Producer, Inputs, ventry, vprev, vchecked, vfound, attack>>

NextHash ==
  /\ call = "none"
  /\ call' = "next_hash"
  /\ ret' = RetHash(next_hash(in_start, in_hashes, in_events))
  /\ UNCHANGED <<Producer, Inputs, ventry, vprev, vchecked, vfound, attack>>

CreateEntry ==
  /\ call = "none"
  /\ call' = "create_entry"
  /\ \E overflow_checks \in BOOLEAN :
       ret' = create_entry(in_start, in_hashes, in_events, overflow_checks)
  /\ UNCHANGED <<Producer, Inputs, ventry, vprev, vchecked, vfound, attack>>

\* verify is entered on the entry built from the arguments.
VerifyStart ==
  /\ call = "none"
  /\ call' = "verify"
  /\ ret' = RetRunning
  /\ ventry' = [num_hashes |-> in_hashes, id |-> in_id, events |-> in_events]
  /\ UNCHANGED <<Producer, Inputs, vprev, vchecked, vfound, attack>>

\* One worker checks one event not yet checked, in any order.
EventCheck ==
  /\ ret.kind = "running"
  /\ \E k \in (1..Len(ventry.events)) \ vchecked :
       /\ vchecked' = vchecked \cup {k}
       /\ vfound' = (vfound \/ ~event_verify(ventry.events[k]))
  /\ UNCHANGED <<Producer, Inputs, call, ret, ventry, vprev, attack>>

VerifyFinish ==
  /\ ret.kind = "running"
  /\ all_done(vchecked, vfound, Len(ventry.events))
  /\ ret' = RetBool(verify_result(~vfound, ventry, in_start), ~vfound)
  /\ UNCHANGED <<Producer, Inputs, call, ventry, vprev, vchecked, vfound, attack>>

\* The tests' attacks on an entry that has just verified: two events change
\* places, or one event is replaced by a valid event of another variant
\* that carries the same signature; the entry is then verified again.
Swap(events, i, j) == [events EXCEPT ![i] = events[j], ![j] = events[i]]

Substitute(events, i, v) ==
  [events EXCEPT ![i] = [variant |-> v, sig |-> events[i].sig, valid |-> TRUE]]

Verified == call = "verify" /\ ret.kind = "bool" /\ ret.bool

SwapAttack ==
  /\ Verified
  /\ \E i \in 1..Len(ventry.events), j \in 1..Len(ventry.events) :
       /\ i < j
       /\ ventry' = [ventry EXCEPT !.events = Swap(ventry.events, i, j)]
       /\ attack' = [kind |-> "swap", i |-> i, j |-> j]
  /\ vprev' = ventry
  /\ ret' = RetRunning
  /\ vchecked' = {}
  /\ vfound' = FALSE
  /\ UNCHANGED <<Producer, Inputs, call>>

SubstituteAttack ==
  /\ Verified
  /\ \E i \in 1..Len(ventry.events) :
       \E v \in Variants \ {ventry.events[i].variant} :
         /\ ventry' = [ventry EXCEPT !.events = Substitute(ventry.events, i, v)]
         /\ attack' = [kind |-> "substitute", i |-> i, j |-> 0]
  /\ vprev' = ventry
  /\ ret' = RetRunning
  /\ vchecked' = {}
  /\ vfound' = FALSE
  /\ UNCHANGED <<Producer, Inputs, call>>

Next ==
  \/ NewTick
  \/ NextTick
  \/ NextHash
  \/ CreateEntry
  \/ VerifyStart
  \/ EventCheck
  \/ VerifyFinish
  \/ SwapAttack
  \/ SubstituteAttack

Spec == Init /\ [][Next]_vars

\* -------------------------------------------------------------- producer
\* The producer owns start_hash and cur_hashes and may start from any value
\* of either.
InitProducer ==
  /\ start_hash \in Starts
  /\ cur_hashes \in Counts
  /\ first_cur = cur_hashes
  /\ calls = 0
  /\ in_start = start_hash
  /\ in_hashes = cur_hashes
  /\ in_events = <<>>
  /\ in_id = Zero
  /\ call = "none"
  /\ ret = RetNone
  /\ ventry = NoEntry
  /\ vprev = NoEntry
  /\ vchecked = {}
  /\ vfound = FALSE
  /\ attack = NoAttack

\* create_entry_mut(&mut start_hash, &mut cur_hashes, events).  The values
\* the two references held on entry are kept in in_start and in_hashes.
CreateEntryMut ==
  /\ calls < MaxCalls
  /\ ret.kind # "panic"
  /\ \E evs \in Batches, overflow_checks \in BOOLEAN :
       LET r == create_entry_mut(start_hash, cur_hashes, evs, overflow_checks)
       IN  /\ in_events' = evs
           /\ ret' = r.ret
           /\ start_hash' = r.start_hash
           /\ cur_hashes' = r.cur_hashes
  /\ call' = "create_entry_mut"
  /\ in_start' = start_hash
  /\ in_hashes' = cur_hashes
  /\ calls' = calls + 1
  /\ UNCHANGED <<first_cur, in_id, ventry, vprev, vchecked, vfound, attack>>

NextProducer == CreateEntryMut

SpecProducer == InitProducer /\ [][NextProducer]_vars

\* ---------------------------------------------------------------- claims
AllValid(events) == \A k \in 1..Len(events) : event_verify(events[k])
Invalid(events) == {k \in 1..Len(events) : ~event_verify(events[k])}
VerifyReturned == call = "verify" /\ ret.kind = "bool"

\* k applications of the one-way hash.
RECURSIVE hash_times(_, _)
hash_times(id, k) == IF k = 0 THEN id ELSE hash(hash_times(id, k - 1))

\* Identifiers to verify against: the starts and their successors.
Identifiers == {hash_times(s, k) : s \in Starts, k \in 0..MaxCount}

\* C1: verify(start) returns true iff every event of the entry passes its
\* own verify() and the id equals next_hash(start, num_hashes, events); and
\* while verify runs neither the entry nor start changes.
C1_Verdict ==
  VerifyReturned =>
    ret.bool = (AllValid(ventry.events)
                /\ ventry.id = next_hash(in_start, ventry.num_hashes, ventry.events))
C1_Frame ==
  (ret.kind = "running") => (ventry' = ventry /\ in_start' = in_start)
C1_Verify == []C1_Verdict /\ [][C1_Frame]_vars

\* An entry whose id matches but that holds exactly one invalid event, rejected.
C1_Witness ==
  /\ VerifyReturned
  /\ ~ret.bool
  /\ Len(ventry.events) = 2
  /\ Cardinality(Invalid(ventry.events)) = 1
  /\ ventry.id = next_hash(in_start, ventry.num_hashes, ventry.events)

C3_NextTick ==
  (call = "next_tick" /\ in_hashes >= 1) =>
    /\ ret.kind = "entry"
    /\ ret.entry.num_hashes = in_hashes
    /\ ret.entry.events = <<>>
    /\ \A x \in Identifiers : Entry_verify(ret.entry, x) <=> (x = in_start)

C3_Witness ==
  /\ call = "next_tick"
  /\ in_hashes = MaxCount
  /\ ret.kind = "entry"
  /\ ret.entry.id = hash_times(in_start, MaxCount - 1)

\* The entry under verification is vprev with the events at attack.i and
\* attack.j exchanged, and vprev verified.
Swapped ==
  /\ VerifyReturned
  /\ attack.kind = "swap"
  /\ Entry_verify(vprev, in_start)
  /\ ventry = [vprev EXCEPT !.events = Swap(vprev.events, attack.i, attack.j)]

\* C4 as stated: exchanging the events at any two positions of a verified
\* entry makes verify return false.
C4_AnySwap == Swapped => ~ret.bool

\* C4 amended: exchanging two events that differ in variant or in signature
\* bytes makes verify return false.
C4_DistinctSwap ==
  (/\ Swapped
   /\ \/ vprev.events[attack.i].variant # vprev.events[attack.j].variant
      \/ vprev.events[attack.i].sig # vprev.events[attack.j].sig)
  => ~ret.bool

C4_Witness ==
  /\ Swapped
  /\ vprev.events[1].variant = vprev.events[2].variant
  /\ vprev.events[1].sig # vprev.events[2].sig
  /\ ~ret.bool

\* C5: replacing one event of a verified entry by a valid event of another
\* variant that carries the same signature bytes makes verify return false.
C5_TypeTag ==
  (/\ VerifyReturned
   /\ attack.kind = "substitute"
   /\ Entry_verify(vprev, in_start)
   /\ \E v \in Variants \ {vprev.events[attack.i].variant} :
        ventry = [vprev EXCEPT !.events = Substitute(vprev.events, attack.i, v)])
  => ~ret.bool

C5_Witness ==
  /\ VerifyReturned
  /\ attack.kind = "substitute"
  /\ Entry_verify(vprev, in_start)
  /\ vprev.events[attack.i].variant = "Timestamp"
  /\ ventry.events[attack.i].variant = "Signature"
  /\ ventry.events[attack.i].sig = vprev.events[attack.i].sig
  /\ AllValid(ventry.events)
  /\ ~ret.bool

Increment(events) == IF Len(events) = 0 THEN 0 ELSE 1

C7_Mut ==
  (call = "create_entry_mut") =>
    /\ ret.kind = "entry"
    /\ \E overflow_checks \in BOOLEAN :
         ret = create_entry(in_start, in_hashes, in_events, overflow_checks)
    /\ start_hash = ret.entry.id
    /\ cur_hashes = 0

\* C8: no constructor fails, for any value of the counter.
C8_Total ==
  (call \in {"new_tick", "next_tick", "create_entry", "create_entry_mut"}) =>
    ret.kind = "entry"

\* C9: whatever order the workers check the events in, and however early
\* they stop, the verdict of the event checks is the conjunction of the
\* events' verify() results, and verify returns what the left-to-right
\* evaluation on one thread returns.
C9_AnyOrder ==
  VerifyReturned =>
    /\ ret.all = AllValid(ventry.events)
    /\ ret.all = seq_all(ventry.events, 1)
    /\ ret.bool = Entry_verify(ventry, in_start)

\* The second event was checked first and failed; the first was never checked.
C9_Witness ==
  /\ VerifyReturned
  /\ Len(ventry.events) = 2
  /\ vchecked = {2}
  /\ event_verify(ventry.events[1])
  /\ ~ret.all

\* C10: a producer that starts with hash count 0 and only calls
\* create_entry_mut keeps hash count 0 and holds the id of the last entry;
\* every entry with valid events verifies against the identifier held
\* before its call, which is the id of the entry before it.
C10_State ==
  (first_cur = 0) =>
    /\ cur_hashes = 0
    /\ (call = "create_entry_mut") =>
         /\ ret.kind = "entry"
         /\ start_hash = ret.entry.id
         /\ AllValid(in_events) => Entry_verify(ret.entry, in_start)
C10_Link ==
  (first_cur = 0 /\ call = "create_entry_mut" /\ calls' = calls + 1) =>
    in_start' = ret.entry.id
C10_Chain == []C10_State /\ [][C10_Link]_vars

\* The second entry of a chain, both entries carrying an event.
C10_Witness ==
  /\ first_cur = 0
  /\ calls = MaxCalls
  /\ Len(in_events) = 1
  /\ AllValid(in_events)
  /\ in_start \notin Starts
  /\ Entry_verify(ret.entry, in_start)

====
